---- MODULE Spec2Model ----
(***************************************************************************)
(* Model of src/vizualization.py: scatterplot(df, figsize, logx, logy)     *)
(* and choropleth(gdf, figsize, cmap).                                     *)
(*                                                                         *)
(* A run is one call of one of the two functions on a table fixed in the   *)
(* initial state.  One step of the model is one execution of the body of   *)
(* the nested draw loop, one fig.delaxes call, or the closing              *)
(* tight_layout / show.  Strings that the code transforms (index labels,   *)
(* column names, titles) are sequences of one-character strings.           *)
(***************************************************************************)
EXTENDS Integers, Sequences, FiniteSets, TLC

VARIABLES func, df, gdf, logx, logy, cmap, pc, i, j, k, ax, drawn, err,
          shown, calls, prev

vars == <<func, df, gdf, logx, logy, cmap, pc, i, j, k, ax, drawn, err,
          shown, calls, prev>>

(***************************************************************************)
(* Bounds of the model.                                                    *)
(***************************************************************************)
\* largest number of rows of a scatterplot table
MaxRows == 12
\* largest number of columns of a choropleth table
MaxCols == 14
\* number of calls made on the table in one behaviour
MaxCalls == 2

(***************************************************************************)
(* Text.                                                                   *)
(***************************************************************************)
LowerAlpha == <<"a","b","c","d","e","f","g","h","i","j","k","l","m",
                "n","o","p","q","r","s","t","u","v","w","x","y","z">>
UpperAlpha == <<"A","B","C","D","E","F","G","H","I","J","K","L","M",
                "N","O","P","Q","R","S","T","U","V","W","X","Y","Z">>

\* str.upper() on one character
ToUpper(c) ==
    IF \E n \in 1..26 : LowerAlpha[n] = c
    THEN UpperAlpha[CHOOSE n \in 1..26 : LowerAlpha[n] = c]
    ELSE c

\* str.lower() on one character
ToLower(c) ==
    IF \E n \in 1..26 : UpperAlpha[n] = c
    THEN LowerAlpha[CHOOSE n \in 1..26 : UpperAlpha[n] = c]
    ELSE c

\* A plausible slip: only the first character is touched.
CapitalizeFirstOnly(s) ==
    [n \in 1..Len(s) |-> IF n = 1 THEN ToUpper(s[n]) ELSE s[n]]

\* str.capitalize(): first character upper-cased, every other one lower-cased
Capitalize(s) ==
    [n \in 1..Len(s) |-> IF n = 1 THEN ToUpper(s[n]) ELSE ToLower(s[n])]

\* str.replace("_", " ")
ReplaceUnderscore(s) ==
    [n \in 1..Len(s) |-> IF s[n] = "_" THEN " " ELSE s[n]]

\* f'{name.capitalize().replace("_", " ")}'
FormatTitle(name) == ReplaceUnderscore(Capitalize(name))

(***************************************************************************)
(* Input tables.                                                           *)
(***************************************************************************)
\* the row label looked up by df.loc["total_population"]
TotalPopulation ==
    <<"t","o","t","a","l","_","p","o","p","u","l","a","t","i","o","n">>

\* the per-borough values of the population row
PopulationData == <<7, 9, 8>>

\* metric names the tables are built from (all distinct)
MetricNames == <<
    <<"b","a","r">>,
    <<"c","a","f","e">>,
    <<"f","a","s","t","_","f","o","o","d">>,
    <<"A","T","M">>,
    <<"p","u","b">>,
    <<"p","o","s","t","_","O","f","f","i","c","e">>,
    <<"b","a","n","k">>,
    <<"_","g","y","m">>,
    <<"P","h","a","r","m","a","c","y">>,
    <<"c","a","r","_","w","a","s","h","_">>,
    <<"f","u","e","l">>,
    <<"i","c","e","_","_","r","i","n","k">>,
    <<"z","o","o">>,
    <<"s","p","A">>,
    <<"t","a","x","i">>,
    <<"b","B","Q">> >>

\* names of the non-metric columns that end a geospatial table
TrailingNames == <<
    <<"N","A","M","E">>,
    <<"g","s","s","_","c","o","d","e">>,
    <<"g","e","o","m","e","t","r","y">> >>

\* the m-th metric row (m >= 1): its label and its per-borough values
MetricRow(m) ==
    [name |-> MetricNames[m], data |-> <<m % 3, (m * m) % 5, m>>]

PopulationRow == [name |-> TotalPopulation, data |-> PopulationData]

NoRow == [name |-> <<>>, data |-> <<>>]

\* A table of n rows: metrics in pool order, the population row at position
\* p (1..n), or no population row when p = 0.
MakeTable(n, p) ==
    [r \in 1..n |->
        IF p = 0 THEN MetricRow(r)
        ELSE IF r < p THEN MetricRow(r)
        ELSE IF r = p THEN PopulationRow
        ELSE MetricRow(r - 1)]

Tables == { MakeTable(n, p) : n \in 0..MaxRows, p \in 0..MaxRows }

\* A geospatial table is the sequence of its column names: metric columns
\* in pool order followed by t non-metric columns, c columns in all.
MakeColumns(c, t) ==
    [n \in 1..c |->
        IF n <= c - t THEN MetricNames[n] ELSE TrailingNames[n - (c - t)]]

GeoTables == UNION { { MakeColumns(c, t) : t \in 0..(IF c < 3 THEN c ELSE 3) } :
                     c \in 0..MaxCols }

\* df.index contains "total_population"
HasPopulation(table) == \E r \in 1..Len(table) : table[r].name = TotalPopulation

\* df.loc[key]
Loc(table, key) == table[CHOOSE r \in 1..Len(table) : table[r].name = key]

\* A slip: the last row counts as out of range.
RowOffByOne(table, kk) == kk + 1 < Len(table)

\* df.iloc[k], columns[k] do not raise
RowInRange(table, kk) == kk < Len(table)

\* gdf.columns[:-2], a slip in the number of trailing columns
MetricColumnsTwo(cols) ==
    IF Len(cols) > 2 THEN SubSeq(cols, 1, Len(cols) - 2) ELSE <<>>

\* gdf.columns[:-3]
MetricColumns(cols) ==
    IF Len(cols) > 3 THEN SubSeq(cols, 1, Len(cols) - 3) ELSE <<>>

(***************************************************************************)
(* Figures.                                                                *)
(***************************************************************************)
\* A slip in the grid size: one row too many.
ScatterNRowsFour == 3 + 1
ScatterNRows == 3
ScatterNCols == 4
ChoroNRows == 4
\* A slip in the grid size: one column too many.
ChoroNColsFour == 3 + 1
ChoroNCols == 3

\* A slip: the inner loop is left one draw early.
BreakAtNine == 10 - 1

\* the value of k at which the inner loop is left
BreakAt == 10

NRows == IF func = "scatterplot" THEN ScatterNRows ELSE ChoroNRows
NCols == IF func = "scatterplot" THEN ScatterNCols ELSE ChoroNCols

Cells(nr, nc) == (0..(nr - 1)) \X (0..(nc - 1))

\* an Axes object as plt.subplots creates it
BlankPanel ==
    [draws |-> 0, x |-> <<>>, y |-> NoRow, column |-> <<>>, cmap |-> "",
     title |-> <<>>, xlabel |-> "", ylabel |-> "",
     xscale |-> "linear", yscale |-> "linear", axis |-> "on",
     deleted |-> FALSE]

\* fig, ax = plt.subplots(nrows, ncols, sharex=True)
Subplots(nr, nc) == [c \in Cells(nr, nc) |-> BlankPanel]

\* no earlier call
NoRun == [valid |-> FALSE, logx |-> FALSE, logy |-> FALSE, cmap |-> "",
          ax |-> Subplots(0, 0), err |-> "none", shown |-> FALSE]

\* what the call that just ended left behind
ThisRun == [valid |-> TRUE, logx |-> logx, logy |-> logy, cmap |-> cmap,
            ax |-> ax, err |-> err, shown |-> shown]

\* A slip: the x flag switches both axes to log.
ScatterPanelBothScales(p, table, kk, lx, ly) ==
    LET p1 == [p EXCEPT !.draws = @ + 1,
                        !.x = Loc(table, TotalPopulation).data,
                        !.y = table[kk + 1]]
        p2 == [p1 EXCEPT !.title = FormatTitle(table[kk + 1].name),
                         !.ylabel = "Number of amenity in a borough",
                         !.xlabel = "Total population per borough"]
        p3 == IF lx THEN [p2 EXCEPT !.xscale = "log", !.yscale = "log"] ELSE p2
    IN  IF ly THEN [p3 EXCEPT !.yscale = "log"] ELSE p3

\* The body of scatterplot's loop on the Axes p, lines 25-35.
ScatterPanel(p, table, kk, lx, ly) ==
    LET p1 == [p EXCEPT !.draws = @ + 1,
                        !.x = Loc(table, TotalPopulation).data,
                        !.y = table[kk + 1]]
        p2 == [p1 EXCEPT !.title = table[kk + 1].name]
        p3 == [p2 EXCEPT !.xlabel = "total_population"]
        p4 == [p3 EXCEPT !.title = FormatTitle(table[kk + 1].name)]
        p5 == [p4 EXCEPT !.ylabel = "Number of amenity in a borough"]
        p6 == [p5 EXCEPT !.xlabel = "Total population per borough"]
        p7 == IF lx THEN [p6 EXCEPT !.xscale = "log"] ELSE p6
    IN  IF ly THEN [p7 EXCEPT !.yscale = "log"] ELSE p7

\* A slip: the column drawn is one further on than the one named.
ChoroPanelNextColumn(p, columns, kk, cm) ==
    [p EXCEPT !.draws = @ + 1,
              !.column = columns[IF kk + 2 <= Len(columns) THEN kk + 2 ELSE 1],
              !.cmap = cm,
              !.title = FormatTitle(columns[kk + 1]),
              !.axis = "off"]

\* The body of choropleth's loop on the Axes p, lines 64-66.
ChoroPanel(p, columns, kk, cm) ==
    LET p1 == [p EXCEPT !.draws = @ + 1,
                        !.column = columns[kk + 1],
                        !.cmap = cm]
        p2 == [p1 EXCEPT !.title = FormatTitle(columns[kk + 1])]
    IN  [p2 EXCEPT !.axis = "off"]

\* Loop control after the body ran at cell (i, j) and k became kk:
\* "if k == 10: break" leaves the inner loop only.
NextCell(kk) ==
    IF kk = BreakAt \/ j + 1 = NCols THEN <<i + 1, 0>> ELSE <<i, j + 1>>

\* the two cells handed to fig.delaxes, in order
DelCells ==
    IF func = "scatterplot" THEN << <<2, 2>>, <<2, 3>> >>
                            ELSE << <<3, 1>>, <<3, 2>> >>

(***************************************************************************)
(* The state machine.                                                      *)
(***************************************************************************)
Init ==
    /\ func \in {"scatterplot", "choropleth"}
    /\ \/ func = "scatterplot" /\ df \in Tables /\ gdf = <<>>
       \/ func = "choropleth" /\ df = <<>> /\ gdf \in GeoTables
    /\ logx = FALSE /\ logy = FALSE /\ cmap = ""
    /\ pc = "idle"
    /\ i = 0 /\ j = 0 /\ k = 0
    /\ ax = Subplots(0, 0)
    /\ drawn = <<>>
    /\ err = "none"
    /\ shown = FALSE
    /\ calls = 0
    /\ prev = NoRun

\* scatterplot is called: lines 17-21
CallScatterplot ==
    /\ func = "scatterplot"
    /\ pc \in {"idle", "returned", "failed"}
    /\ calls < MaxCalls
    /\ \E lx \in BOOLEAN, ly \in BOOLEAN : logx' = lx /\ logy' = ly
    /\ cmap' = ""
    /\ ax' = Subplots(ScatterNRows, ScatterNCols)
    /\ i' = 0 /\ j' = 0 /\ k' = 0
    /\ drawn' = <<>>
    /\ err' = "none"
    /\ shown' = FALSE
    /\ calls' = calls + 1
    /\ pc' = "loop"
    /\ prev' = IF pc = "idle" THEN NoRun ELSE ThisRun
    /\ UNCHANGED <<func, df, gdf>>

\* one pass of the loop body that completes: lines 25-38
ScatterDraw ==
    /\ func = "scatterplot"
    /\ pc = "loop"
    /\ HasPopulation(df)
    /\ RowInRange(df, k)
    /\ ax' = [c \in DOMAIN ax |->
                IF c = <<i, j>> THEN ScatterPanel(ax[c], df, k, logx, logy)
                ELSE IF logx THEN [ax[c] EXCEPT !.xscale = "log"]
                ELSE ax[c]]
    /\ drawn' = Append(drawn, <<i, j>>)
    /\ k' = k + 1
    /\ i' = NextCell(k + 1)[1]
    /\ j' = NextCell(k + 1)[2]
    /\ pc' = IF NextCell(k + 1)[1] = NRows THEN "delaxes1" ELSE "loop"
    /\ UNCHANGED <<func, df, gdf, logx, logy, cmap, err, shown, calls, prev>>

\* line 25 raises: KeyError from df.loc, else IndexError from df.iloc
ScatterRaise ==
    /\ func = "scatterplot"
    /\ pc = "loop"
    /\ ~(HasPopulation(df) /\ RowInRange(df, k))
    /\ err' = IF ~HasPopulation(df) THEN "KeyError" ELSE "IndexError"
    /\ pc' = "failed"
    /\ UNCHANGED <<func, df, gdf, logx, logy, cmap, i, j, k, ax, drawn,
                   shown, calls, prev>>

\* choropleth is called: lines 57-61
CallChoropleth ==
    /\ func = "choropleth"
    /\ pc \in {"idle", "returned", "failed"}
    /\ calls < MaxCalls
    /\ cmap' \in {"viridis", "plasma"}
    /\ logx' = FALSE /\ logy' = FALSE
    /\ ax' = Subplots(ChoroNRows, ChoroNCols)
    /\ i' = 0 /\ j' = 0 /\ k' = 0
    /\ drawn' = <<>>
    /\ err' = "none"
    /\ shown' = FALSE
    /\ calls' = calls + 1
    /\ pc' = "loop"
    /\ prev' = IF pc = "idle" THEN NoRun ELSE ThisRun
    /\ UNCHANGED <<func, df, gdf>>

\* one pass of the loop body that completes: lines 64-69
ChoroDraw ==
    /\ func = "choropleth"
    /\ pc = "loop"
    /\ RowInRange(MetricColumns(gdf), k)
    /\ ax' = [ax EXCEPT ![<<i, j>>] = ChoroPanel(@, MetricColumns(gdf), k, cmap)]
    /\ drawn' = Append(drawn, <<i, j>>)
    /\ k' = k + 1
    /\ i' = NextCell(k + 1)[1]
    /\ j' = NextCell(k + 1)[2]
    /\ pc' = IF NextCell(k + 1)[1] = NRows THEN "delaxes1" ELSE "loop"
    /\ UNCHANGED <<func, df, gdf, logx, logy, cmap, err, shown, calls, prev>>

\* columns[k] on line 64 raises IndexError
ChoroRaise ==
    /\ func = "choropleth"
    /\ pc = "loop"
    /\ ~RowInRange(MetricColumns(gdf), k)
    /\ err' = "IndexError"
    /\ pc' = "failed"
    /\ UNCHANGED <<func, df, gdf, logx, logy, cmap, i, j, k, ax, drawn,
                   shown, calls, prev>>

\* the first fig.delaxes: line 40 / line 71
DelAxesFirst ==
    /\ pc = "delaxes1"
    /\ ax' = [ax EXCEPT ![DelCells[1]].deleted = TRUE]
    /\ pc' = "delaxes2"
    /\ UNCHANGED <<func, df, gdf, logx, logy, cmap, i, j, k, drawn, err,
                   shown, calls, prev>>

\* the second fig.delaxes: line 41 / line 72
DelAxesSecond ==
    /\ pc = "delaxes2"
    /\ ax' = [ax EXCEPT ![DelCells[2]].deleted = TRUE]
    /\ pc' = "layout"
    /\ UNCHANGED <<func, df, gdf, logx, logy, cmap, i, j, k, drawn, err,
                   shown, calls, prev>>

\* scatterplot: fig.tight_layout(); plt.show(), lines 42-43
ScatterShow ==
    /\ func = "scatterplot"
    /\ pc = "layout"
    /\ shown' = TRUE
    /\ pc' = "returned"
    /\ UNCHANGED <<func, df, gdf, logx, logy, cmap, i, j, k, ax, drawn, err,
                   calls, prev>>

\* choropleth: fig.tight_layout(), line 73; the function ends there
ChoroLayout ==
    /\ func = "choropleth"
    /\ pc = "layout"
    /\ pc' = "returned"
    /\ UNCHANGED <<func, df, gdf, logx, logy, cmap, i, j, k, ax, drawn, err,
                   shown, calls, prev>>

scatterplot == CallScatterplot \/ ScatterDraw \/ ScatterRaise \/ ScatterShow

choropleth == CallChoropleth \/ ChoroDraw \/ ChoroRaise \/ ChoroLayout

Next == scatterplot \/ choropleth \/ DelAxesFirst \/ DelAxesSecond

Spec == Init /\ [][Next]_vars

(***************************************************************************)
(* Properties.                                                             *)
(***************************************************************************)
\* the cells a draw has happened on
Populated(a) == { c \in DOMAIN a : a[c].draws > 0 }

\* the cells handed to fig.delaxes so far
Deleted(a) == { c \in DOMAIN a : a[c].deleted }

\* the loop has been left and the closing statements are running or done
PastLoop == pc \in {"delaxes1", "delaxes2", "layout", "returned"}

\* the metric a populated panel shows
PanelName(p) == IF func = "scatterplot" THEN p.y.name ELSE p.column

\* C1: a scatterplot call on a table of exactly 11 rows, the
\* total_population row and 10 metric rows, never raises, never draws
\* more than 10 times, and returns with exactly 10 populated panels and
\* exactly 2 deleted panels of a 12-cell grid.
ScatterElevenRowsCompletes ==
    (func = "scatterplot" /\ Len(df) = 11 /\ HasPopulation(df)) =>
        /\ pc # "failed" /\ err = "none"
        /\ Len(drawn) <= 10
        /\ (pc = "returned" =>
               /\ Cardinality(DOMAIN ax) = 12
               /\ Cardinality(Populated(ax)) = 10
               /\ Cardinality(Deleted(ax)) = 2)

ScatterElevenRowsReturned ==
    /\ func = "scatterplot" /\ Len(df) = 11 /\ HasPopulation(df)
    /\ pc = "returned" /\ shown
    /\ Cardinality(Populated(ax)) = 10

\* C2: a scatterplot call on a table of fewer than 11 rows never gets past
\* its loop, and when the table holds the total_population row the call
\* ends in an out-of-range error (IndexError).
ScatterFewerThanElevenFails ==
    (func = "scatterplot" /\ Len(df) < 11) =>
        /\ ~PastLoop
        /\ (pc = "failed" /\ HasPopulation(df) => err = "IndexError")

\* C3: when scatterplot returns on a table of the total_population row and
\* 10 other rows, no populated panel has the total_population row as its
\* y-data and each other row is the y-data of exactly one panel.
ScatterSkipsPopulationRow ==
    (func = "scatterplot" /\ pc = "returned" /\ Len(df) = 11
        /\ HasPopulation(df)) =>
        /\ \A c \in Populated(ax) : ax[c].y.name # TotalPopulation
        /\ \A r \in 1..Len(df) :
              df[r].name # TotalPopulation =>
                  Cardinality({ c \in Populated(ax) : ax[c].y = df[r] }) = 1

\* C4: a choropleth call on a table of exactly 13 columns never raises,
\* never draws more than 10 times, and returns with exactly 10 populated
\* panels and exactly 2 deleted panels of a 12-cell grid.
ChoroThirteenColumnsCompletes ==
    (func = "choropleth" /\ Len(gdf) = 13) =>
        /\ pc # "failed" /\ err = "none"
        /\ Len(drawn) <= 10
        /\ (pc = "returned" =>
               /\ Cardinality(DOMAIN ax) = 12
               /\ Cardinality(Populated(ax)) = 10
               /\ Cardinality(Deleted(ax)) = 2)

ChoroThirteenColumnsReturned ==
    /\ func = "choropleth" /\ Len(gdf) = 13
    /\ pc = "returned"
    /\ Cardinality(Populated(ax)) = 10

\* C5: a choropleth call on a table of fewer than 13 columns never gets
\* past its loop and, when it ends, ends in an IndexError raised after
\* one draw per metric column; on a table of 13 or more columns it never
\* raises.
ChoroFailsBelowThirteenColumns ==
    func = "choropleth" =>
        /\ Len(gdf) < 13 =>
              /\ ~PastLoop
              /\ (pc = "failed" =>
                     /\ err = "IndexError"
                     /\ Len(drawn) = (IF Len(gdf) > 3 THEN Len(gdf) - 3 ELSE 0))
        /\ Len(gdf) >= 13 => pc # "failed" /\ err = "none"

ChoroTwelveColumnsFailed ==
    /\ func = "choropleth" /\ Len(gdf) = 12
    /\ pc = "failed" /\ err = "IndexError"
    /\ Len(drawn) = 9

\* the title the original wording of C6 asks for: underscores replaced by
\* spaces, the first character upper-cased, all other characters kept
TitleKeepingCase(name) ==
    [n \in 1..Len(name) |->
        IF name[n] = "_" THEN " "
        ELSE IF n = 1 THEN ToUpper(name[n]) ELSE name[n]]

\* the title with every character after the first lower-cased
TitleLoweringRest(name) ==
    [n \in 1..Len(name) |->
        IF name[n] = "_" THEN " "
        ELSE IF n = 1 THEN ToUpper(name[n]) ELSE ToLower(name[n])]

\* C6 as stated: in both functions the title of every populated panel is
\* the panel's metric name with underscores replaced by spaces, the first
\* letter capitalized and every other character unchanged.
TitleKeepsOtherCharacters ==
    \A c \in Populated(ax) : ax[c].title = TitleKeepingCase(PanelName(ax[c]))

\* C6 amended: in both functions the title of every populated panel is the
\* panel's metric name with underscores replaced by spaces, the first
\* letter capitalized and every other letter lower-cased; the raw name is
\* left as title only when it already has that form.
TitleLowersOtherCharacters ==
    \A c \in Populated(ax) :
        /\ ax[c].title = TitleLoweringRest(PanelName(ax[c]))
        /\ (ax[c].title = PanelName(ax[c]) =>
               PanelName(ax[c]) = TitleLoweringRest(PanelName(ax[c])))

TitleOfMixedCaseName ==
    /\ pc = "returned"
    /\ \E c \in Populated(ax) :
          /\ PanelName(ax[c]) = <<"p","o","s","t","_","O","f","f","i","c","e">>
          /\ ax[c].title = <<"P","o","s","t"," ","o","f","f","i","c","e">>

\* a panel with its axis scales blanked out
WithoutScale(p) == [p EXCEPT !.xscale = "", !.yscale = ""]

\* C7: two scatterplot calls on the same table, whatever their flags, end
\* the same way with panels that agree in everything but the axis scales
\* (draws, x-data, y-data, title, labels, deletion); and in every call each
\* populated panel has a log x-scale exactly when logx is set and a log
\* y-scale exactly when logy is set.
LogFlagsChangeOnlyScale ==
    func = "scatterplot" =>
        /\ \A c \in Populated(ax) :
              /\ ax[c].xscale = (IF logx THEN "log" ELSE "linear")
              /\ ax[c].yscale = (IF logy THEN "log" ELSE "linear")
        /\ (pc \in {"returned", "failed"} /\ prev.valid) =>
              /\ err = prev.err
              /\ shown = prev.shown
              /\ DOMAIN ax = DOMAIN prev.ax
              /\ \A c \in DOMAIN ax :
                    WithoutScale(ax[c]) = WithoutScale(prev.ax[c])

TwoRunsWithOppositeFlags ==
    /\ func = "scatterplot" /\ pc = "returned" /\ prev.valid
    /\ logx /\ ~logy /\ ~prev.logx /\ prev.logy
    /\ \E c \in Populated(ax) :
          /\ ax[c].xscale = "log" /\ ax[c].yscale = "linear"
          /\ prev.ax[c].xscale = "linear" /\ prev.ax[c].yscale = "log"

\* the last three columns of a geospatial table
TrailingColumns(cols) ==
    { cols[n] : n \in { m \in 1..Len(cols) : m > Len(cols) - 3 } }

\* C8: in a choropleth call on a table of 13 or more columns the n-th draw
\* shows the n-th column of the table, no panel ever shows one of the last
\* three columns or a column after the 10th, and the call returns with
\* exactly 10 populated panels.
ChoroShowsFirstTenColumns ==
    (func = "choropleth" /\ Len(gdf) >= 13) =>
        /\ \A n \in 1..Len(drawn) : ax[drawn[n]].column = gdf[n]
        /\ \A c \in Populated(ax) :
              /\ ax[c].column \notin TrailingColumns(gdf)
              /\ ax[c].column \in { gdf[n] : n \in 1..10 }
        /\ (pc = "returned" => Cardinality(Populated(ax)) = 10)

ChoroFourteenColumnsReturned ==
    /\ func = "choropleth" /\ Len(gdf) = 14
    /\ pc = "returned"
    /\ gdf[11] \notin TrailingColumns(gdf)
    /\ \A c \in Populated(ax) : ax[c].column # gdf[11]

\* the n-th cell (n >= 1) of a grid of nc columns in row-major order
RowMajor(n, nc) == <<(n - 1) \div nc, (n - 1) % nc>>

\* C9: in both functions the loop body is never entered with k >= 10, the
\* draws happen at the first cells of the grid in row-major order (4
\* columns in scatterplot, 3 in choropleth), each cell at most once, no
\* cell is deleted before the loop is left, and once the loop is left
\* there are exactly 10 draws; the cells deleted when the call returns are
\* (2,2),(2,3) in scatterplot and (3,1),(3,2) in choropleth, which are
\* exactly the cells of the 12 never drawn on.
LoopDrawsFirstTenCells ==
    /\ (pc = "loop" => k < 10)
    /\ \A n \in 1..Len(drawn) :
          drawn[n] = RowMajor(n, IF func = "scatterplot" THEN 4 ELSE 3)
    /\ \A c \in DOMAIN ax : ax[c].draws <= 1
    /\ Populated(ax) = { drawn[n] : n \in 1..Len(drawn) }
    /\ (pc \in {"loop", "failed"} => Deleted(ax) = {})
    /\ (PastLoop => Len(drawn) = 10 /\ k = 10)
    /\ (pc = "returned" =>
           /\ Cardinality(DOMAIN ax) = 12
           /\ Deleted(ax) = (IF func = "scatterplot"
                             THEN { <<2, 2>>, <<2, 3>> }
                             ELSE { <<3, 1>>, <<3, 2>> })
           /\ Deleted(ax) = DOMAIN ax \ Populated(ax)
           /\ Deleted(ax) \cap Populated(ax) = {})

BothUnusedCellsDeleted ==
    /\ func = "choropleth" /\ pc = "returned"
    /\ Len(drawn) = 10 /\ drawn[10] = <<3, 0>>
    /\ Deleted(ax) = { <<3, 1>>, <<3, 2>> }

\* C10: in scatterplot a cell is deleted only after 10 panels have been
\* populated and the figure is shown only after both cells have been
\* deleted; a call that fails has deleted no cell and shown nothing, and
\* one that fails with an IndexError has populated exactly as many panels
\* as the table has rows.
ScatterDeletesAndShowsLast ==
    func = "scatterplot" =>
        /\ (Deleted(ax) # {} => Cardinality(Populated(ax)) = 10)
        /\ (shown => Cardinality(Deleted(ax)) = 2 /\ pc = "returned")
        /\ (pc = "returned" => shown)
        /\ (pc = "failed" => Deleted(ax) = {} /\ ~shown)
        /\ (pc = "failed" /\ err = "IndexError" =>
               /\ Cardinality(Populated(ax)) = Len(df)
               /\ Len(df) < 10)

ScatterFailedPartway ==
    /\ func = "scatterplot" /\ pc = "failed" /\ err = "IndexError"
    /\ Len(df) = 7
    /\ Cardinality(Populated(ax)) = 7
    /\ Deleted(ax) = {} /\ ~shown

====
